---- MODULE Spec2Model ----
(***************************************************************************)
(* junkdb: the slotted heap page (src/page/table_page.rs) and the delete   *)
(* executor (src/executor/delete_executor.rs).                             *)
(*                                                                         *)
(* A page is its byte buffer `data`, a function from 0..PAGE_SIZE-1 to     *)
(* bytes.  Every operation of TablePage is an operator on such a buffer,   *)
(* written as the Rust code writes it: little-endian field reads and       *)
(* writes at the offsets the constants give.                               *)
(***************************************************************************)
EXTENDS Integers, Sequences, FiniteSets, TLC

(***************************************************************************)
(* Layout constants.                                                       *)
(***************************************************************************)
\* crate::common::PAGE_SIZE.  The layout code is parametric in it; the model
\* runs it on a reduced page so that pages fill up after a few inserts.
PAGE_SIZE == 64

\* crate::page::{PAGE_TYPE_OFFSET, PAGE_TYPE_SIZE, PAGE_ID_OFFSET, PAGE_ID_SIZE}
PAGE_TYPE_OFFSET == 0
PAGE_TYPE_SIZE == 2
PAGE_ID_OFFSET == PAGE_TYPE_OFFSET + PAGE_TYPE_SIZE
PAGE_ID_SIZE == 4
\* crate::common::INVALID_PAGE_ID
INVALID_PAGE_ID == 0

TABLE_PAGE_PAGE_TYPE == 1
LSN_OFFSET == PAGE_ID_OFFSET + PAGE_ID_SIZE
LSN_SIZE == 8
NEXT_PAGE_ID_OFFSET == LSN_OFFSET + LSN_SIZE
NEXT_PAGE_ID_SIZE == 4
LOWER_OFFSET_OFFSET == NEXT_PAGE_ID_OFFSET + NEXT_PAGE_ID_SIZE
LOWER_OFFSET_SIZE == 4
UPPER_OFFSET_OFFSET == LOWER_OFFSET_OFFSET + LOWER_OFFSET_SIZE
UPPER_OFFSET_SIZE == 4
HEADER_SIZE ==
    PAGE_TYPE_SIZE + PAGE_ID_SIZE + LSN_SIZE + NEXT_PAGE_ID_SIZE
        + LOWER_OFFSET_SIZE + UPPER_OFFSET_SIZE
LINE_POINTER_OFFSET_SIZE == 4
LINE_POINTER_SIZE_SIZE == 4
LINE_POINTER_SIZE == LINE_POINTER_OFFSET_SIZE + LINE_POINTER_SIZE_SIZE

\* Tuple layout [xmin:u32, xmax:u32, columns...] (crate::tuple)
XMAX_OFFSET == 4
XMAX_SIZE == 4

(***************************************************************************)
(* Byte-level helpers.  A byte string is a sequence of bytes (1-based); a  *)
(* buffer is a function on 0..n-1, as a Rust slice is indexed.             *)
(***************************************************************************)
\* b^i for small i, without the exponent operator's overflow
RECURSIVE Pow256(_)
Pow256(i) == IF i = 0 THEN 1 ELSE 256 * Pow256(i - 1)

\* v.to_le_bytes() of an n-byte unsigned integer (v < 2^31 in the model, so
\* bytes 4.. of a u64 are zero)
to_le_bytes(v, n) ==
    [i \in 1..n |-> IF i <= 4 THEN (v \div Pow256(i - 1)) % 256 ELSE 0]

\* uN::from_le_bytes(d[off..off+n]); a zero byte adds nothing, whatever its
\* weight
RECURSIVE from_le_bytes(_, _, _)
from_le_bytes(d, off, n) ==
    IF n = 0 THEN 0
    ELSE IF d[off + n - 1] = 0 THEN from_le_bytes(d, off, n - 1)
    ELSE d[off + n - 1] * Pow256(n - 1) + from_le_bytes(d, off, n - 1)

\* d[off..off+len].copy_from_slice(bytes)
copy_from_slice(d, off, bytes) ==
    [i \in DOMAIN d |->
        IF off <= i /\ i < off + Len(bytes) THEN bytes[i - off + 1] ELSE d[i]]

\* d[from..to] as a byte string
slice(d, from, to) == [i \in 1..(to - from) |-> d[from + i - 1]]

(***************************************************************************)
(* TablePage                                                               *)
(***************************************************************************)
\* faulty new: upper_offset starts at the last byte, not past it
new_UpperOffByOne(pid) ==
    LET d0 == [i \in 0..(PAGE_SIZE - 1) |-> 0]
        d1 == copy_from_slice(d0, PAGE_TYPE_OFFSET,
                              to_le_bytes(TABLE_PAGE_PAGE_TYPE, PAGE_TYPE_SIZE))
        d2 == copy_from_slice(d1, PAGE_ID_OFFSET, to_le_bytes(pid, PAGE_ID_SIZE))
        d3 == copy_from_slice(d2, NEXT_PAGE_ID_OFFSET,
                              to_le_bytes(INVALID_PAGE_ID, NEXT_PAGE_ID_SIZE))
        d4 == copy_from_slice(d3, LOWER_OFFSET_OFFSET,
                              to_le_bytes(HEADER_SIZE, LOWER_OFFSET_SIZE))
        d5 == copy_from_slice(d4, UPPER_OFFSET_OFFSET,
                              to_le_bytes(PAGE_SIZE - 1, UPPER_OFFSET_SIZE))
    IN  d5

new(pid) ==
    LET d0 == [i \in 0..(PAGE_SIZE - 1) |-> 0]
        d1 == copy_from_slice(d0, PAGE_TYPE_OFFSET,
                              to_le_bytes(TABLE_PAGE_PAGE_TYPE, PAGE_TYPE_SIZE))
        d2 == copy_from_slice(d1, PAGE_ID_OFFSET, to_le_bytes(pid, PAGE_ID_SIZE))
        d3 == copy_from_slice(d2, NEXT_PAGE_ID_OFFSET,
                              to_le_bytes(INVALID_PAGE_ID, NEXT_PAGE_ID_SIZE))
        d4 == copy_from_slice(d3, LOWER_OFFSET_OFFSET,
                              to_le_bytes(HEADER_SIZE, LOWER_OFFSET_SIZE))
        d5 == copy_from_slice(d4, UPPER_OFFSET_OFFSET,
                              to_le_bytes(PAGE_SIZE, UPPER_OFFSET_SIZE))
    IN  d5

lower_offset(d) == from_le_bytes(d, LOWER_OFFSET_OFFSET, LOWER_OFFSET_SIZE)

upper_offset(d) == from_le_bytes(d, UPPER_OFFSET_OFFSET, UPPER_OFFSET_SIZE)

\* The offsets are u32.  On every page reachable from new they stay within
\* HEADER_SIZE..PAGE_SIZE with lower_offset <= upper_offset (C1), so neither
\* this subtraction nor the arithmetic of insert can wrap or overflow.
free_space(d) == upper_offset(d) - lower_offset(d)

tuple_count(d) == (lower_offset(d) - HEADER_SIZE) \div LINE_POINTER_SIZE

line_pointer_offset(d, index) ==
    from_le_bytes(d, HEADER_SIZE + index * LINE_POINTER_SIZE,
                  LINE_POINTER_OFFSET_SIZE)

line_pointer_size(d, index) ==
    from_le_bytes(d, HEADER_SIZE + index * LINE_POINTER_SIZE
                         + LINE_POINTER_OFFSET_SIZE,
                  LINE_POINTER_SIZE_SIZE)

get_tuple(d, index) ==
    LET offset == line_pointer_offset(d, index)
        size == line_pointer_size(d, index)
    IN  slice(d, offset, offset + size)

get_tuples(d) == [k \in 1..tuple_count(d) |-> get_tuple(d, k - 1)]

page_id(d) == from_le_bytes(d, PAGE_ID_OFFSET, PAGE_ID_SIZE)

lsn(d) == from_le_bytes(d, LSN_OFFSET, LSN_SIZE)

next_page_id(d) == from_le_bytes(d, NEXT_PAGE_ID_OFFSET, NEXT_PAGE_ID_SIZE)

set_lsn(d, v) == copy_from_slice(d, LSN_OFFSET, to_le_bytes(v, LSN_SIZE))

\* faulty set_next_page_id: the bytes go to the page id's place
set_next_page_id_AtPageId(d, pid) ==
    copy_from_slice(d, PAGE_ID_OFFSET, to_le_bytes(pid, NEXT_PAGE_ID_SIZE))

set_next_page_id(d, pid) ==
    copy_from_slice(d, NEXT_PAGE_ID_OFFSET, to_le_bytes(pid, NEXT_PAGE_ID_SIZE))

\* insert with its four decisions as parameters: the room the guard asks for,
\* the growth of lower_offset, where the slot entry goes and the offset it
\* records.  insert itself is written out below; the faulty variants that the
\* claims are tested against are instances of this.
insert_variant(d, bytes, fits, lower_step, slot_at, slot_offset) ==
    IF ~fits
    THEN [ok |-> FALSE, data |-> d]
    ELSE LET lower == lower_offset(d)
             upper == upper_offset(d)
             d1 == copy_from_slice(d, LOWER_OFFSET_OFFSET,
                       to_le_bytes(lower + lower_step, LOWER_OFFSET_SIZE))
             d2 == copy_from_slice(d1, UPPER_OFFSET_OFFSET,
                       to_le_bytes(upper - Len(bytes), UPPER_OFFSET_SIZE))
             d3 == copy_from_slice(d2, slot_at,
                       to_le_bytes(slot_offset, LINE_POINTER_OFFSET_SIZE))
             d4 == copy_from_slice(d3, slot_at + LINE_POINTER_OFFSET_SIZE,
                       to_le_bytes(Len(bytes), LINE_POINTER_SIZE_SIZE))
             d5 == copy_from_slice(d4, upper - Len(bytes), bytes)
         IN  [ok |-> TRUE, data |-> d5]

\* faulty insert: the guard forgets the slot entry's own 8 bytes
insert_NoSlotRoom(d, bytes) ==
    insert_variant(d, bytes, ~(free_space(d) < Len(bytes)),
                   LINE_POINTER_SIZE, lower_offset(d),
                   upper_offset(d) - Len(bytes))

\* faulty insert: the slot entry is written at the new lower_offset
insert_SlotAtNextLower(d, bytes) ==
    insert_variant(d, bytes,
                   ~(free_space(d) < Len(bytes) + LINE_POINTER_SIZE),
                   LINE_POINTER_SIZE, lower_offset(d) + LINE_POINTER_SIZE,
                   upper_offset(d) - Len(bytes))

\* faulty insert: the guard rejects a payload that fits exactly (<= for <)
insert_OffByOneFull(d, bytes) ==
    insert_variant(d, bytes,
                   ~(free_space(d) <= Len(bytes) + LINE_POINTER_SIZE),
                   LINE_POINTER_SIZE, lower_offset(d),
                   upper_offset(d) - Len(bytes))

\* faulty insert: the slot records the old upper_offset, the payload's end
insert_SlotOldUpper(d, bytes) ==
    insert_variant(d, bytes,
                   ~(free_space(d) < Len(bytes) + LINE_POINTER_SIZE),
                   LINE_POINTER_SIZE, lower_offset(d), upper_offset(d))

\* faulty insert: lower_offset grows by the offset field only, not the slot
insert_LowerHalfSlot(d, bytes) ==
    insert_variant(d, bytes,
                   ~(free_space(d) < Len(bytes) + LINE_POINTER_SIZE),
                   LINE_POINTER_OFFSET_SIZE, lower_offset(d),
                   upper_offset(d) - Len(bytes))

\* faulty insert: the slot entry is written before the room is checked
insert_SlotBeforeGuard(d, bytes) ==
    LET d1 == copy_from_slice(d, lower_offset(d),
                  to_le_bytes(upper_offset(d) - Len(bytes),
                              LINE_POINTER_OFFSET_SIZE))
        d2 == copy_from_slice(d1, lower_offset(d) + LINE_POINTER_OFFSET_SIZE,
                  to_le_bytes(Len(bytes), LINE_POINTER_SIZE_SIZE))
    IN  IF free_space(d) < Len(bytes) + LINE_POINTER_SIZE
        THEN [ok |-> FALSE, data |-> d2]
        ELSE insert_variant(d, bytes, TRUE, LINE_POINTER_SIZE,
                            lower_offset(d), upper_offset(d) - Len(bytes))

\* insert: [ok |-> the call returned Ok(()), data |-> the buffer afterwards]
insert(d, bytes) ==
    IF free_space(d) < Len(bytes) + LINE_POINTER_SIZE
    THEN [ok |-> FALSE, data |-> d]
    ELSE LET data_size == Len(bytes)
             lower == lower_offset(d)
             upper == upper_offset(d)
             next_lower_offset == lower + LINE_POINTER_SIZE
             next_upper_offset == upper - Len(bytes)
             d1 == copy_from_slice(d, LOWER_OFFSET_OFFSET,
                       to_le_bytes(next_lower_offset, LOWER_OFFSET_SIZE))
             d2 == copy_from_slice(d1, UPPER_OFFSET_OFFSET,
                       to_le_bytes(next_upper_offset, UPPER_OFFSET_SIZE))
             d3 == copy_from_slice(d2, lower,
                       to_le_bytes(next_upper_offset, LINE_POINTER_OFFSET_SIZE))
             d4 == copy_from_slice(d3, lower + LINE_POINTER_OFFSET_SIZE,
                       to_le_bytes(data_size, LINE_POINTER_SIZE_SIZE))
             d5 == copy_from_slice(d4, next_upper_offset, bytes)
         IN  [ok |-> TRUE, data |-> d5]

\* Tuple::set_xmax: overwrites the xmax field of the tuple's bytes; a buffer
\* too short to hold the field makes the slice index panic.
set_xmax(t, txn) ==
    IF Len(t) < XMAX_OFFSET + XMAX_SIZE
    THEN [panic |-> TRUE, data |-> t]
    ELSE [panic |-> FALSE,
          data |-> [i \in 1..Len(t) |->
                      IF XMAX_OFFSET < i /\ i <= XMAX_OFFSET + XMAX_SIZE
                      THEN to_le_bytes(txn, XMAX_SIZE)[i - XMAX_OFFSET]
                      ELSE t[i]]]

\* faulty delete: the stamped tuple is copied back at upper_offset
delete_WritesAtUpper(d, index, txn) ==
    LET offset == line_pointer_offset(d, index)
        size == line_pointer_size(d, index)
        tuple == set_xmax(slice(d, offset, offset + size), txn)
    IN  IF tuple.panic
        THEN [panic |-> TRUE, data |-> d]
        ELSE [panic |-> FALSE,
              data |-> copy_from_slice(d, upper_offset(d), tuple.data)]

\* faulty delete: the stamped copy of the tuple is never copied back
delete_DropsWrite(d, index, txn) ==
    LET offset == line_pointer_offset(d, index)
        size == line_pointer_size(d, index)
        tuple == set_xmax(slice(d, offset, offset + size), txn)
    IN  [panic |-> tuple.panic, data |-> d]

\* delete: [panic |-> the call panicked, data |-> the buffer afterwards].
\* The index is not compared with tuple_count(): the slot entry is read
\* wherever it falls, and only a read past the end of the buffer panics.
delete(d, index, txn) ==
    IF HEADER_SIZE + index * LINE_POINTER_SIZE + LINE_POINTER_SIZE > PAGE_SIZE
    THEN [panic |-> TRUE, data |-> d]
    ELSE LET offset == line_pointer_offset(d, index)
             size == line_pointer_size(d, index)
         IN  IF offset + size > PAGE_SIZE
             THEN [panic |-> TRUE, data |-> d]
             ELSE LET tuple == set_xmax(slice(d, offset, offset + size), txn)
                  IN  IF tuple.panic
                      THEN [panic |-> TRUE, data |-> d]
                      ELSE [panic |-> FALSE,
                            data |-> copy_from_slice(d, offset, tuple.data)]

(***************************************************************************)
(* Inputs of the page operations.                                          *)
(***************************************************************************)
\* a payload of `len` bytes whose content depends on `seed`
Payload(len, seed) == [i \in 1..len |-> (seed + 7 * i) % 256]

\* the largest payload a fresh page takes: its free space less one slot
FreshFit == PAGE_SIZE - HEADER_SIZE - LINE_POINTER_SIZE

\* empty, shorter than the MVCC header, exactly the MVCC header, longer (twice
\* each, with different contents), the largest that fits a fresh page, and one
\* byte more than that
Payloads ==
    { Payload(0, 0), Payload(5, 17), Payload(8, 17), Payload(8, 200),
      Payload(11, 17), Payload(11, 200),
      Payload(FreshFit, 17), Payload(FreshFit + 1, 17) }

PageIds == {258}
TxnIds == {7, 258}
Lsns == {16909060}
NextPageIds == {2}

\* the length of a first tuple that starts on a slot boundary: the bytes
\* between the header and the tuple are a whole number of slot entries
AlignedLen ==
    ((PAGE_SIZE - HEADER_SIZE) % LINE_POINTER_SIZE) + 2 * LINE_POINTER_SIZE

\* rows as the layers above store them, [xmin, xmax, columns]: no column, one
\* and two Int columns, and two Int columns followed by text up to AlignedLen
RowPayloads ==
    { to_le_bytes(3, 4) \o to_le_bytes(0, 4),
      to_le_bytes(5, 4) \o to_le_bytes(0, 4) \o to_le_bytes(7, 4),
      to_le_bytes(3, 4) \o to_le_bytes(0, 4) \o to_le_bytes(18, 4)
          \o to_le_bytes(8, 4),
      to_le_bytes(3, 4) \o to_le_bytes(0, 4) \o to_le_bytes(18, 4)
          \o to_le_bytes(8, 4)
          \o [i \in 1..(AlignedLen - 2 * LINE_POINTER_SIZE) |-> 32 + i] }

\* the largest index handed to delete; the slot entry of MaxIndex lies past
\* the end of the page
MaxIndex == 4

\* lastTxn of a slot no delete has completed on
NoTxn == 0 - 1

(***************************************************************************)
(* The table heap and the delete executor.                                 *)
(***************************************************************************)
\* a stored row: [xmin:u32, xmax:u32, columns...]
Row(xmin, columns) == to_le_bytes(xmin, 4) \o to_le_bytes(0, 4) \o columns

\* the pages of the table the executor deletes from: page 1, filled by two
\* rows and chained to page 2, which holds one row
FIRST_PAGE_ID == 1
SECOND_PAGE_ID == 2

HeapPages ==
    LET a == insert(new(FIRST_PAGE_ID), Row(3, <<11, 12, 13>>)).data
        b == insert(a, Row(3, <<21, 22, 23>>)).data
        c == insert(new(SECOND_PAGE_ID), Row(5, <<31>>)).data
    IN  [pid \in {FIRST_PAGE_ID, SECOND_PAGE_ID} |->
            IF pid = FIRST_PAGE_ID THEN set_next_page_id(b, SECOND_PAGE_ID)
            ELSE c]

\* RID = (PageID, slot index)
Rids ==
    { <<pid, slot>> : pid \in {FIRST_PAGE_ID, SECOND_PAGE_ID}, slot \in 0..1 }
        \ { <<SECOND_PAGE_ID, 1>> }

NoRid == <<0, 0>>

\* what child.next() can hand back: Ok(Some(row)) with or without a rid,
\* Err(_), Ok(None)
RowItem(rid) == [kind |-> "row", has_rid |-> TRUE, rid |-> rid]
RidlessItem == [kind |-> "row", has_rid |-> FALSE, rid |-> NoRid]
ErrItem == [kind |-> "err", has_rid |-> FALSE, rid |-> NoRid]
NoneItem == [kind |-> "none", has_rid |-> FALSE, rid |-> NoRid]

ChildItems == { RowItem(rid) : rid \in Rids } \cup { RidlessItem, ErrItem }

\* the longest child stream, and the number of next() calls followed
MaxChild == 3
MaxNext == 4

ChildStreams == UNION { [1..n -> ChildItems] : n \in 0..MaxChild }

\* child.next(): the next item of the stream, Ok(None) at its end
child_next(stream) ==
    IF stream = <<>> THEN [item |-> NoneItem, rest |-> <<>>]
    ELSE [item |-> Head(stream), rest |-> Tail(stream)]

\* Result<Option<Tuple>> of next(); Tuple::new(None, &vec![]) is the tuple
\* with no rid and no bytes
SomeTuple(has_rid, bytes) ==
    [kind |-> "Some", err |-> "", has_rid |-> has_rid, bytes |-> bytes]
NoneResult == [kind |-> "None", err |-> "", has_rid |-> FALSE, bytes |-> <<>>]
ErrResult(e) == [kind |-> "Err", err |-> e, has_rid |-> FALSE, bytes |-> <<>>]

\* table_heap: Option<TableHeap>, <<>> for None
TableHeap_new(first_page_id, txn_id) ==
    <<[first_page_id |-> first_page_id, txn_id |-> txn_id]>>

\* TableHeap::delete(rid): takes the row lock and pins the page (either may
\* fail, lock_ok = FALSE), then TablePage::delete(rid.slot, txn_id)
TableHeap_delete(th, pages, rid, lock_ok) ==
    IF ~lock_ok THEN [ok |-> FALSE, pages |-> pages]
    ELSE LET r == delete(pages[rid[1]], rid[2], th.txn_id)
         IN  [ok |-> ~r.panic,
              pages |-> [pages EXCEPT ![rid[1]] = r.data]]

\* faulty init: the arguments of TableHeap::new are passed in the wrong
\* order, so the heap stamps with the page id
DeleteExecutor_init_SwapsArgs(self, child_ok, first_page_id, txn_id) ==
    IF ~child_ok THEN [ok |-> FALSE, self |-> self]
    ELSE [ok |-> TRUE,
          self |-> [self EXCEPT
                       !.table_heap = TableHeap_new(txn_id, first_page_id)]]

\* DeleteExecutor::init on self = [table_heap, count, child]
DeleteExecutor_init(self, child_ok, first_page_id, txn_id) ==
    IF ~child_ok THEN [ok |-> FALSE, self |-> self]
    ELSE [ok |-> TRUE,
          self |-> [self EXCEPT
                       !.table_heap = TableHeap_new(first_page_id, txn_id)]]

\* the outcome of one next(): the executor afterwards, the pages afterwards,
\* the result, and what the call did to its collaborators (the items it
\* pulled from the child, the rids it handed to table_heap.delete)
Outcome(self, pages, result, pulled, deleted) ==
    [self |-> self, pages |-> pages, result |-> result,
     pulled |-> pulled, deleted |-> deleted]

\* faulty next: count is incremented before the heap delete is known to
\* have succeeded
DeleteExecutor_next_CountsEarly(self, pages, lock_ok) ==
    LET c == child_next(self.child)
        row == c.item
        s1 == [self EXCEPT !.child = c.rest]
    IN  IF row.kind = "err"
        THEN Outcome(s1, pages, ErrResult("ChildError"), <<row>>, <<>>)
        ELSE IF row.kind = "row"
        THEN IF s1.table_heap = <<>>
             THEN Outcome(s1, pages, ErrResult("NotInitialized"), <<row>>, <<>>)
             ELSE IF ~row.has_rid
             THEN Outcome(s1, pages, ErrResult("MissingRid"), <<row>>, <<>>)
             ELSE LET d == TableHeap_delete(s1.table_heap[1], pages,
                                            row.rid, lock_ok)
                      s2 == [s1 EXCEPT !.count = @ + 1]
                  IN  IF ~d.ok
                      THEN Outcome(s2, d.pages, ErrResult("HeapError"),
                                   <<row>>, <<[rid |-> row.rid, ok |-> FALSE]>>)
                      ELSE Outcome(s2, d.pages, SomeTuple(FALSE, <<>>),
                                   <<row>>, <<[rid |-> row.rid, ok |-> TRUE]>>)
        ELSE Outcome(s1, pages, NoneResult, <<row>>, <<>>)

\* faulty next: a row without a rid is skipped and the next item is pulled
\* in the same call
DeleteExecutor_next_SkipsRidless(self, pages, lock_ok) ==
    LET c0 == child_next(self.child)
        skip == c0.item.kind = "row" /\ ~c0.item.has_rid
                    /\ self.table_heap # <<>>
        c == IF skip THEN child_next(c0.rest) ELSE c0
        pulled == IF skip THEN <<c0.item, c.item>> ELSE <<c0.item>>
        row == c.item
        s1 == [self EXCEPT !.child = c.rest]
    IN  IF row.kind = "err"
        THEN Outcome(s1, pages, ErrResult("ChildError"), pulled, <<>>)
        ELSE IF row.kind = "row"
        THEN IF s1.table_heap = <<>>
             THEN Outcome(s1, pages, ErrResult("NotInitialized"), pulled, <<>>)
             ELSE IF ~row.has_rid
             THEN Outcome(s1, pages, ErrResult("MissingRid"), pulled, <<>>)
             ELSE LET d == TableHeap_delete(s1.table_heap[1], pages,
                                            row.rid, lock_ok)
                  IN  IF ~d.ok
                      THEN Outcome(s1, d.pages, ErrResult("HeapError"),
                                   pulled, <<[rid |-> row.rid, ok |-> FALSE]>>)
                      ELSE Outcome([s1 EXCEPT !.count = @ + 1], d.pages,
                                   SomeTuple(FALSE, <<>>),
                                   pulled, <<[rid |-> row.rid, ok |-> TRUE]>>)
        ELSE Outcome(s1, pages, NoneResult, pulled, <<>>)

\* faulty next: a missing rid is replaced by the default rid (first page,
\* slot 0) instead of being refused
DeleteExecutor_next_DefaultRid(self, pages, lock_ok) ==
    LET c == child_next(self.child)
        row == c.item
        s1 == [self EXCEPT !.child = c.rest]
    IN  IF row.kind = "err"
        THEN Outcome(s1, pages, ErrResult("ChildError"), <<row>>, <<>>)
        ELSE IF row.kind = "row"
        THEN IF s1.table_heap = <<>>
             THEN Outcome(s1, pages, ErrResult("NotInitialized"), <<row>>, <<>>)
             ELSE LET rid == IF row.has_rid THEN row.rid
                             ELSE <<s1.table_heap[1].first_page_id, 0>>
                      d == TableHeap_delete(s1.table_heap[1], pages,
                                            rid, lock_ok)
                  IN  IF ~d.ok
                      THEN Outcome(s1, d.pages, ErrResult("HeapError"),
                                   <<row>>, <<[rid |-> rid, ok |-> FALSE]>>)
                      ELSE Outcome([s1 EXCEPT !.count = @ + 1], d.pages,
                                   SomeTuple(FALSE, <<>>),
                                   <<row>>, <<[rid |-> rid, ok |-> TRUE]>>)
        ELSE Outcome(s1, pages, NoneResult, <<row>>, <<>>)

\* DeleteExecutor::next on self = [table_heap, count, child]
DeleteExecutor_next(self, pages, lock_ok) ==
    LET c == child_next(self.child)
        row == c.item
        s1 == [self EXCEPT !.child = c.rest]
    IN  IF row.kind = "err"
        THEN Outcome(s1, pages, ErrResult("ChildError"), <<row>>, <<>>)
        ELSE IF row.kind = "row"
        THEN IF s1.table_heap = <<>>
             THEN Outcome(s1, pages, ErrResult("NotInitialized"), <<row>>, <<>>)
             ELSE IF ~row.has_rid
             THEN Outcome(s1, pages, ErrResult("MissingRid"), <<row>>, <<>>)
             ELSE LET d == TableHeap_delete(s1.table_heap[1], pages,
                                            row.rid, lock_ok)
                  IN  IF ~d.ok
                      THEN Outcome(s1, d.pages, ErrResult("HeapError"),
                                   <<row>>, <<[rid |-> row.rid, ok |-> FALSE]>>)
                      ELSE Outcome([s1 EXCEPT !.count = @ + 1], d.pages,
                                   SomeTuple(FALSE, <<>>),
                                   <<row>>, <<[rid |-> row.rid, ok |-> TRUE]>>)
        ELSE Outcome(s1, pages, NoneResult, <<row>>, <<>>)

(***************************************************************************)
(* The planner (src/plan.rs).  A plan node is a record with its variant in *)
(* `kind` and the fields of that variant's struct; child: Box<Plan> is the  *)
(* child's record.  An Option is <<>> for None and <<x>> for Some(x).      *)
(***************************************************************************)
Column(name, data_type) == [name |-> name, data_type |-> data_type]

\* BoundExpressionAST::data_type() (the binder's): the type the bound
\* expression carries
data_type(expression) == expression.data_type

SeqScanPlan(first_page_id, schema) ==
    [kind |-> "SeqScan", first_page_id |-> first_page_id, schema |-> schema]

FilterPlan(condition, schema, child) ==
    [kind |-> "Filter", condition |-> condition, schema |-> schema,
     child |-> child]

ProjectPlan(select_elements, schema, child) ==
    [kind |-> "Project", select_elements |-> select_elements,
     schema |-> schema, child |-> child]

InsertPlan(first_page_id, values, schema) ==
    [kind |-> "Insert", first_page_id |-> first_page_id, values |-> values,
     schema |-> schema]

DeletePlan(first_page_id, schema, child) ==
    [kind |-> "Delete", first_page_id |-> first_page_id, schema |-> schema,
     child |-> child]

UpdatePlan(first_page_id, assignments, schema, child) ==
    [kind |-> "Update", first_page_id |-> first_page_id,
     assignments |-> assignments, schema |-> schema, child |-> child]

\* Plan::schema
schema(plan) == plan.schema

plan_base_table_reference(table_reference) ==
    SeqScanPlan(table_reference.first_page_id, table_reference.schema)

\* BoundTableReferenceAST has the one variant Base
plan_table_reference(table_reference) ==
    plan_base_table_reference(table_reference)

\* faulty plan_select_statement: the Filter is put on top of the Project
plan_select_statement_FilterOnTop(select_statement) ==
    LET plan0 == plan_table_reference(select_statement.table_reference)
        elements == select_statement.select_elements
        plan1 ==
            IF elements # <<>>
            THEN ProjectPlan(elements,
                     [i \in 1..Len(elements) |->
                         Column(elements[i].name,
                                data_type(elements[i].expression))],
                     plan0)
            ELSE plan0
    IN  IF select_statement.condition # <<>>
        THEN FilterPlan(select_statement.condition[1], schema(plan1), plan1)
        ELSE plan1

plan_select_statement(select_statement) ==
    LET plan0 == plan_table_reference(select_statement.table_reference)
        plan1 ==
            IF select_statement.condition # <<>>
            THEN FilterPlan(select_statement.condition[1], schema(plan0), plan0)
            ELSE plan0
        elements == select_statement.select_elements
    IN  IF elements # <<>>
        THEN ProjectPlan(elements,
                 [i \in 1..Len(elements) |->
                     Column(elements[i].name,
                            data_type(elements[i].expression))],
                 plan1)
        ELSE plan1

plan_insert_statement(insert_statement) ==
    InsertPlan(insert_statement.first_page_id, insert_statement.values,
               <<Column("__insert_count", "Int")>>)

\* faulty plan_delete_statement: the schema is the one copied from
\* plan_insert_statement
plan_delete_statement_InsertCount(delete_statement) ==
    LET plan0 == plan_base_table_reference(delete_statement.table_reference)
        first_page_id == plan0.first_page_id
        plan1 ==
            IF delete_statement.condition # <<>>
            THEN FilterPlan(delete_statement.condition[1], schema(plan0), plan0)
            ELSE plan0
    IN  DeletePlan(first_page_id, <<Column("__insert_count", "Int")>>, plan1)

plan_delete_statement(delete_statement) ==
    LET plan0 == plan_base_table_reference(delete_statement.table_reference)
        first_page_id == plan0.first_page_id
        plan1 ==
            IF delete_statement.condition # <<>>
            THEN FilterPlan(delete_statement.condition[1], schema(plan0), plan0)
            ELSE plan0
    IN  DeletePlan(first_page_id, <<Column("__delete_count", "Int")>>, plan1)

plan_update_statement(update_statement) ==
    LET plan0 == plan_base_table_reference(update_statement.table_reference)
        first_page_id == plan0.first_page_id
        plan1 ==
            IF update_statement.condition # <<>>
            THEN FilterPlan(update_statement.condition[1], schema(plan0), plan0)
            ELSE plan0
    IN  UpdatePlan(first_page_id, update_statement.assignments,
                   <<Column("__update_count", "Int")>>, plan1)

\* Planner::plan
Planner_plan(stmt) ==
    IF stmt.kind = "Select" THEN plan_select_statement(stmt)
    ELSE IF stmt.kind = "Insert" THEN plan_insert_statement(stmt)
    ELSE IF stmt.kind = "Delete" THEN plan_delete_statement(stmt)
    ELSE plan_update_statement(stmt)

(***************************************************************************)
(* Bound statements handed to the planner.                                 *)
(***************************************************************************)
\* a bound expression: which expression it is, and its data type
Expression(id, type) == [id |-> id, data_type |-> type]

Expressions ==
    { Expression("id", "Int"), Expression("name", "Varchar"),
      Expression("id = 1", "Boolean") }

Schemas ==
    { <<Column("id", "Int")>>,
      <<Column("id", "Int"), Column("name", "Varchar")>> }

TableReferences ==
    { [first_page_id |-> pid, schema |-> sch] : pid \in {3, 258}, sch \in Schemas }

Conditions == { <<>>, <<Expression("id = 1", "Boolean")>>,
                <<Expression("name", "Varchar")>> }

\* BoundSelectElementAST; the name need not be the expression's text
SelectElements ==
    { [expression |-> e, name |-> n] :
          e \in Expressions, n \in {"id", "alias"} }

\* the longest select list
MaxElements == 2

SelectLists == UNION { [1..n -> SelectElements] : n \in 0..MaxElements }

\* BoundAssignmentAST
Assignments ==
    { <<>>, <<[column_index |-> 0, value |-> Expression("id", "Int")]>> }

ValueLists == { <<>>, <<Expression("id", "Int")>>,
                <<Expression("id", "Int"), Expression("name", "Varchar")>> }

SelectStatements ==
    { [kind |-> "Select", table_reference |-> t, condition |-> c,
       select_elements |-> l] :
          t \in TableReferences, c \in Conditions, l \in SelectLists }

InsertStatements ==
    { [kind |-> "Insert", first_page_id |-> pid, values |-> v] :
          pid \in {3, 258}, v \in ValueLists }

DeleteStatements ==
    { [kind |-> "Delete", table_reference |-> t, condition |-> c] :
          t \in TableReferences, c \in Conditions }

UpdateStatements ==
    { [kind |-> "Update", table_reference |-> t, condition |-> c,
       assignments |-> a] :
          t \in TableReferences, c \in Conditions, a \in Assignments }

(***************************************************************************)
(* State.                                                                  *)
(*   data      the page's buffer (TablePage.data)                          *)
(*   prev      the buffer before the last operation                        *)
(*   last      the last operation, its arguments and its outcome           *)
(*   inserted  the payloads of the successful inserts, in call order       *)
(*   failed    some insert has failed so far                               *)
(*   lastTxn   per slot, the txn_id of the last delete that completed      *)
(***************************************************************************)
VARIABLES data, prev, last, inserted, failed, lastTxn

pageVars == <<data, prev, last, inserted, failed, lastTxn>>

(***************************************************************************)
(*   executor  the DeleteExecutor: table_heap, count and its child (the    *)
(*             items the child has yet to yield)                           *)
(*   ctx       executor_context.transaction_id                             *)
(*   heap      the pages of the table, by page id                          *)
(*   calls     one record per next() call so far: the items it pulled from *)
(*             the child, the heap deletes it issued, its result, count    *)
(*             before and after, whether table_heap was set when it began, *)
(*             the table's pages before and after                          *)
(***************************************************************************)
VARIABLES executor, ctx, heap, calls

execVars == <<executor, ctx, heap, calls>>

(***************************************************************************)
(*   statement  the bound statement the Planner was made with              *)
(*              (Planner.statement), <<>> where no planner runs            *)
(*   plan       what Planner::plan returned, <<>> before the call          *)
(***************************************************************************)
VARIABLES statement, plan

planVars == <<statement, plan>>

vars == <<pageVars, execVars, planVars>>

Op(op, bytes, index, arg, ok) ==
    [op |-> op, bytes |-> bytes, index |-> index, arg |-> arg, ok |-> ok]

\* a page fresh from TablePage::new, no operation on it yet
FreshPage(pid) ==
    /\ data = new(pid)
    /\ prev = new(pid)
    /\ last = Op("new", <<>>, 0, pid, TRUE)
    /\ inserted = <<>>
    /\ failed = FALSE
    /\ lastTxn = <<>>

\* the page alone: TablePage::new(page_id), and no executor
Init ==
    /\ \E pid \in PageIds : FreshPage(pid)
    /\ executor = [table_heap |-> <<>>, count |-> 0, child |-> <<>>]
    /\ ctx = 0
    /\ heap = <<>>
    /\ calls = <<>>
    /\ statement = <<>>
    /\ plan = <<>>

\* the executor as constructed over the table's pages, before init(): no
\* table heap yet, count 0, any child stream
ExecInit ==
    /\ \E stream \in ChildStreams :
           executor = [table_heap |-> <<>>, count |-> 0, child |-> stream]
    /\ ctx \in TxnIds
    /\ heap = HeapPages
    /\ calls = <<>>
    /\ \E pid \in PageIds : FreshPage(pid)
    /\ statement = <<>>
    /\ plan = <<>>

\* page.insert(bytes)
Insert ==
    \E bytes \in Payloads :
        LET r == insert(data, bytes)
        IN  /\ data' = r.data
            /\ prev' = data
            /\ last' = Op("insert", bytes, 0, 0, r.ok)
            /\ inserted' = IF r.ok THEN Append(inserted, bytes) ELSE inserted
            /\ failed' = (failed \/ ~r.ok)
            /\ lastTxn' = IF r.ok THEN Append(lastTxn, NoTxn) ELSE lastTxn
            /\ UNCHANGED <<execVars, planVars>>

\* page.delete(index, txn_id) on a slot that exists
Delete ==
    \E index \in 0..(tuple_count(data) - 1), txn \in TxnIds :
        LET r == delete(data, index, txn)
        IN  /\ data' = r.data
            /\ prev' = data
            /\ last' = Op("delete", <<>>, index, txn, ~r.panic)
            /\ lastTxn' = IF r.panic THEN lastTxn
                          ELSE [lastTxn EXCEPT ![index + 1] = txn]
            /\ UNCHANGED <<inserted, failed, execVars, planVars>>

\* page.set_lsn(lsn)
SetLsn ==
    \E v \in Lsns :
        /\ data' = set_lsn(data, v)
        /\ prev' = data
        /\ last' = Op("set_lsn", <<>>, 0, v, TRUE)
        /\ UNCHANGED <<inserted, failed, lastTxn, execVars, planVars>>

\* page.set_next_page_id(page_id)
SetNextPageId ==
    \E pid \in NextPageIds :
        /\ data' = set_next_page_id(data, pid)
        /\ prev' = data
        /\ last' = Op("set_next_page_id", <<>>, 0, pid, TRUE)
        /\ UNCHANGED <<inserted, failed, lastTxn, execVars, planVars>>

Next == Insert \/ Delete \/ SetLsn \/ SetNextPageId

Spec == Init /\ [][Next]_vars

\* executor.init()
ExecutorInit ==
    \E child_ok \in BOOLEAN :
        LET r == DeleteExecutor_init(executor, child_ok, FIRST_PAGE_ID, ctx)
        IN  /\ executor' = r.self
            /\ UNCHANGED <<ctx, heap, calls, pageVars, planVars>>

\* executor.next()
ExecutorNext ==
    /\ Len(calls) < MaxNext
    /\ \E lock_ok \in BOOLEAN :
           LET r == DeleteExecutor_next(executor, heap, lock_ok)
           IN  /\ executor' = r.self
               /\ heap' = r.pages
               /\ calls' = Append(calls,
                      [pulled |-> r.pulled, deleted |-> r.deleted,
                       result |-> r.result,
                       initialized |-> executor.table_heap # <<>>,
                       pages_before |-> heap, pages_after |-> r.pages,
                       count_before |-> executor.count,
                       count_after |-> r.self.count])
               /\ UNCHANGED <<ctx, pageVars, planVars>>

ExecNext == ExecutorInit \/ ExecutorNext

ExecSpec == ExecInit /\ [][ExecNext]_vars

\* the last operation was a delete of a slot that was never inserted
OutOfRange == last.op = "delete" /\ last.index >= tuple_count(prev)

\* page.insert(bytes) of a stored row, as long as every delete was in range
InsertRow ==
    /\ ~OutOfRange
    /\ \E bytes \in RowPayloads :
           LET r == insert(data, bytes)
           IN  /\ data' = r.data
               /\ prev' = data
               /\ last' = Op("insert", bytes, 0, 0, r.ok)
               /\ inserted' = IF r.ok THEN Append(inserted, bytes)
                               ELSE inserted
               /\ failed' = (failed \/ ~r.ok)
               /\ lastTxn' = IF r.ok THEN Append(lastTxn, NoTxn) ELSE lastTxn
               /\ UNCHANGED <<execVars, planVars>>

\* page.delete(index, txn_id) with any index, in range or not; the page is
\* followed up to the first delete that is out of range
DeleteAt ==
    /\ ~OutOfRange
    /\ \E index \in 0..MaxIndex, txn \in TxnIds :
           LET r == delete(data, index, txn)
           IN  /\ data' = r.data
               /\ prev' = data
               /\ last' = Op("delete", <<>>, index, txn, ~r.panic)
               /\ lastTxn' = IF r.panic \/ index >= tuple_count(data)
                               THEN lastTxn
                               ELSE [lastTxn EXCEPT ![index + 1] = txn]
               /\ UNCHANGED <<inserted, failed, execVars, planVars>>

AnyIndexNext == InsertRow \/ DeleteAt

\* the page alone, with delete called on any index
AnyIndexSpec == Init /\ [][AnyIndexNext]_vars

\* Planner::new(statement), on a page and an executor that do nothing
PlanInit ==
    /\ statement \in SelectStatements \cup InsertStatements
                         \cup DeleteStatements \cup UpdateStatements
    /\ plan = <<>>
    /\ \E pid \in PageIds : FreshPage(pid)
    /\ executor = [table_heap |-> <<>>, count |-> 0, child |-> <<>>]
    /\ ctx = 0
    /\ heap = <<>>
    /\ calls = <<>>

\* planner.plan()
PlannerPlan ==
    /\ plan = <<>>
    /\ plan' = <<Planner_plan(statement)>>
    /\ UNCHANGED <<statement, pageVars, execVars>>

PlanSpec == PlanInit /\ [][PlannerPlan]_vars

(***************************************************************************)
(* Properties of the page.                                                 *)
(***************************************************************************)
\* the xmax field of a tuple's bytes
xmax(t) == from_le_bytes(t, XMAX_OFFSET + 1, XMAX_SIZE)

NoDeleteYet == \A i \in DOMAIN lastTxn : lastTxn[i] = NoTxn

SomeDelete == \E i \in DOMAIN lastTxn : lastTxn[i] # NoTxn

\* C1: on a page made by new, after any sequence of inserts (successful or
\* failing), deletes on existing slots, set_lsn and set_next_page_id,
\* HEADER_SIZE <= lower_offset <= upper_offset <= PAGE_SIZE, with
\* HEADER_SIZE = 26.
C1_OffsetsNeverCross ==
    /\ HEADER_SIZE = 26
    /\ HEADER_SIZE <= lower_offset(data)
    /\ lower_offset(data) <= upper_offset(data)
    /\ upper_offset(data) <= PAGE_SIZE

\* a page filled to the last byte (lower_offset = upper_offset) that has seen
\* a failing insert, a delete and both setters
C1_Witness ==
    /\ lower_offset(data) = upper_offset(data)
    /\ tuple_count(data) >= 2
    /\ failed
    /\ SomeDelete
    /\ lsn(data) # 0
    /\ next_page_id(data) # INVALID_PAGE_ID

\* C2: after any sequence of inserts on a fresh page, failing ones included,
\* get_tuples() is exactly the payloads of the successful inserts in call
\* order, get_tuple(i) is the i-th of them, and tuple_count() is their number.
C2_RoundTrip ==
    NoDeleteYet =>
        /\ tuple_count(data) = Len(inserted)
        /\ get_tuples(data) = inserted
        /\ \A i \in 1..Len(inserted) : get_tuple(data, i - 1) = inserted[i]

\* two payloads of one length and different content read back in call
\* order, the second of them inserted after some insert had failed
C2_Witness ==
    /\ NoDeleteYet
    /\ failed
    /\ last.op = "insert" /\ last.ok
    /\ Len(inserted) = 2
    /\ Len(inserted[1]) = Len(inserted[2])
    /\ inserted[1] # inserted[2]
    /\ get_tuple(data, 1) = last.bytes

\* C3: insert(bytes) fails exactly when free_space < bytes.len() + 8; an
\* insert with bytes.len() + 8 = free_space succeeds and leaves no free space;
\* an empty payload succeeds whenever free_space >= 8.
C3_PageFullExactly ==
    last.op = "insert" =>
        /\ ~last.ok <=> free_space(prev) < Len(last.bytes) + 8
        /\ (Len(last.bytes) + 8 = free_space(prev))
               => (last.ok /\ free_space(data) = 0)
        /\ (Len(last.bytes) = 0 /\ free_space(prev) >= 8) => last.ok

\* an insert into a page that already holds a tuple, fitting exactly
C3_Witness ==
    /\ last.op = "insert" /\ last.ok
    /\ tuple_count(prev) >= 1
    /\ Len(last.bytes) + 8 = free_space(prev)
    /\ free_space(data) = 0

\* C4 as stated: whenever an insert fails, the same payload inserted into a
\* page fresh from new succeeds.
C4_AlwaysRecoverable ==
    (last.op = "insert" /\ ~last.ok)
        => insert(new(page_id(data)), last.bytes).ok

\* C4, amended: whenever an insert fails, the same payload inserted into a
\* page fresh from new succeeds if and only if the payload is at most
\* PAGE_SIZE - HEADER_SIZE - 8 bytes long; a longer one fails on every page.
C4_RecoverableIffFits ==
    /\ (last.op = "insert" /\ ~last.ok)
           => (insert(new(page_id(data)), last.bytes).ok
                  <=> Len(last.bytes) <= PAGE_SIZE - HEADER_SIZE - 8)
    /\ (last.op = "insert" /\ Len(last.bytes) > PAGE_SIZE - HEADER_SIZE - 8)
           => ~last.ok

\* an insert that failed on a used page with the largest payload a fresh
\* page takes
C4_Witness ==
    /\ last.op = "insert" /\ ~last.ok
    /\ tuple_count(data) >= 1
    /\ Len(last.bytes) = PAGE_SIZE - HEADER_SIZE - 8
    /\ insert(new(page_id(data)), last.bytes).ok

\* C5: delete(slot, txn_id) on an existing slot changes no byte of the page
\* outside the xmax field of that slot's tuple, and leaves tuple_count() as
\* it was.
C5_DeleteFrame ==
    last.op = "delete" =>
        LET offset == line_pointer_offset(prev, last.index)
        IN  /\ \A i \in 0..(PAGE_SIZE - 1) :
                   (i < offset + XMAX_OFFSET
                        \/ i >= offset + XMAX_OFFSET + XMAX_SIZE)
                       => data[i] = prev[i]
            /\ tuple_count(data) = tuple_count(prev)

\* a delete that changed the page, on the first of two slots, whose tuple
\* has bytes after the xmax field
C5_Witness ==
    /\ last.op = "delete" /\ last.ok
    /\ data # prev
    /\ last.index = 0
    /\ tuple_count(data) >= 2
    /\ line_pointer_size(data, last.index) > XMAX_OFFSET + XMAX_SIZE

\* C6: the xmax of the tuple in slot i is the txn_id of the most recent
\* delete on that slot, whatever happened to the page since and whether or
\* not xmax was set before; and repeating the last delete changes nothing.
C6_LastWriterWins ==
    /\ \A i \in DOMAIN lastTxn :
           lastTxn[i] # NoTxn => xmax(get_tuple(data, i - 1)) = lastTxn[i]
    /\ (last.op = "delete" /\ last.ok)
           => delete(data, last.index, last.arg) = [panic |-> FALSE, data |-> data]

\* a delete with txn 258 on a slot whose xmax an earlier delete had set to 7
C6_Witness ==
    /\ last.op = "delete" /\ last.ok
    /\ last.arg = 258
    /\ xmax(get_tuple(prev, last.index)) = 7
    /\ xmax(get_tuple(data, last.index)) = 258

\* C7: every slot k < tuple_count() references a range inside
\* [upper_offset, PAGE_SIZE); slot 0 ends at PAGE_SIZE, slot k+1 ends where
\* slot k begins (so the ranges do not overlap and lie in reverse insertion
\* order) and the last slot begins at upper_offset.
C7_SlotLayout ==
    LET n == tuple_count(data)
        off(k) == line_pointer_offset(data, k)
        size(k) == line_pointer_size(data, k)
    IN  /\ \A k \in 0..(n - 1) :
               /\ upper_offset(data) <= off(k)
               /\ off(k) + size(k) <= PAGE_SIZE
        /\ n > 0 => off(0) + size(0) = PAGE_SIZE
        /\ \A k \in 0..(n - 2) : off(k + 1) + size(k + 1) = off(k)
        /\ n > 0 => off(n - 1) = upper_offset(data)
        /\ \A j, k \in 0..(n - 1) :
               j < k => off(k) + size(k) <= off(j)

\* three slots, an empty tuple among them, after a delete
C7_Witness ==
    /\ tuple_count(data) >= 3
    /\ \E k \in 0..(tuple_count(data) - 1) : line_pointer_size(data, k) = 0
    /\ \E k \in 0..(tuple_count(data) - 1) : line_pointer_size(data, k) > 8
    /\ SomeDelete

\* C8: free_space() never increases; a successful insert of n bytes lowers it
\* by exactly n + 8 (lower_offset + 8, upper_offset - n); a failing insert and
\* a delete leave it as it was.
C8_FreeSpaceMonotone ==
    /\ free_space(data) <= free_space(prev)
    /\ (last.op = "insert" /\ last.ok) =>
           /\ free_space(data) = free_space(prev) - (Len(last.bytes) + 8)
           /\ lower_offset(data) = lower_offset(prev) + 8
           /\ upper_offset(data) = upper_offset(prev) - Len(last.bytes)
    /\ (last.op = "delete" \/ (last.op = "insert" /\ ~last.ok)) =>
           /\ free_space(data) = free_space(prev)
           /\ lower_offset(data) = lower_offset(prev)
           /\ upper_offset(data) = upper_offset(prev)

\* a successful insert of a non-empty payload into a page a delete had
\* already stamped
C8_Witness ==
    /\ last.op = "insert" /\ last.ok
    /\ Len(last.bytes) > 0
    /\ SomeDelete
    /\ free_space(data) < free_space(prev)

(***************************************************************************)
(* Properties of the delete executor (under ExecSpec).                     *)
(***************************************************************************)
CallsWhere(P(_)) == Cardinality({ k \in DOMAIN calls : P(calls[k]) })

ReturnedSome(call) == call.result.kind = "Some"

\* table_heap.delete calls that succeeded, over all next() calls so far
RECURSIVE SuccessfulDeletes(_)
SuccessfulDeletes(cs) ==
    IF cs = <<>> THEN 0
    ELSE Cardinality({ j \in DOMAIN Head(cs).deleted : Head(cs).deleted[j].ok })
             + SuccessfulDeletes(Tail(cs))

\* C9: count is the number of table_heap.delete calls that succeeded, which
\* is the number of next() calls that returned Some; a next() that returns
\* an error or None leaves count as it was; every row next() returns is the
\* empty tuple without rid, so the count never comes back as a row.
C9_CountIsSuccessfulDeletes ==
    /\ executor.count = SuccessfulDeletes(calls)
    /\ executor.count = CallsWhere(ReturnedSome)
    /\ \A k \in DOMAIN calls :
           /\ calls[k].result.kind # "Some"
                  => calls[k].count_after = calls[k].count_before
           /\ calls[k].result.kind = "Some"
                  => /\ calls[k].count_after = calls[k].count_before + 1
                     /\ ~calls[k].result.has_rid
                     /\ calls[k].result.bytes = <<>>
           /\ calls[k].count_before =
                  (IF k = 1 THEN 0 ELSE calls[k - 1].count_after)
    /\ calls # <<>> => executor.count = calls[Len(calls)].count_after

\* after init: two deletes counted, a failed heap delete not counted, and
\* the end of the stream reached
C9_Witness ==
    /\ executor.table_heap # <<>>
    /\ executor.count = 2
    /\ Len(calls) = 4
    /\ \E k \in DOMAIN calls :
           /\ calls[k].initialized
           /\ calls[k].result = ErrResult("HeapError")
    /\ calls[4].result = NoneResult

\* C10: every next() pulls exactly one item from the child.  If it is a row
\* (carrying a rid, pulled by an initialized executor) exactly one
\* table_heap.delete is issued, with that row's rid, and next() returns the
\* empty tuple once that delete has succeeded; if it is None no delete is
\* issued and next() returns None.  So the deletes are issued in the order
\* the rows are pulled, one per row, none ahead of the pull.
C10_OnePullOneDelete ==
    \A k \in DOMAIN calls :
        LET call == calls[k]
        IN  /\ Len(call.pulled) = 1
            /\ LET item == call.pulled[1]
               IN  /\ (item.kind = "row" /\ item.has_rid /\ call.initialized)
                          => /\ Len(call.deleted) = 1
                             /\ call.deleted[1].rid = item.rid
                             /\ call.deleted[1].ok
                                    <=> call.result = SomeTuple(FALSE, <<>>)
                   /\ call.result.kind = "Some"
                          => /\ item.kind = "row" /\ item.has_rid
                             /\ call.deleted = <<[rid |-> item.rid, ok |-> TRUE]>>
                   /\ item.kind = "none"
                          => /\ call.deleted = <<>>
                             /\ call.result = NoneResult
                   /\ ~(item.kind = "row" /\ item.has_rid /\ call.initialized)
                          => call.deleted = <<>>

\* three rows pulled, on two pages, each deleted in its own call in the
\* order pulled, then the end of the stream
C10_Witness ==
    /\ Len(calls) = 4
    /\ \A k \in 1..3 :
           /\ calls[k].pulled[1].kind = "row"
           /\ calls[k].result = SomeTuple(FALSE, <<>>)
           /\ calls[k].deleted[1].rid = calls[k].pulled[1].rid
    /\ calls[1].pulled[1].rid = <<SECOND_PAGE_ID, 0>>
    /\ calls[2].pulled[1].rid = <<FIRST_PAGE_ID, 1>>
    /\ calls[3].pulled[1].rid = <<FIRST_PAGE_ID, 0>>
    /\ calls[4].pulled[1].kind = "none"
    /\ calls[4].result = NoneResult

\* C11 as stated: every next() made before init() fails with NotInitialized,
\* whatever the child yields, issues no heap delete and leaves count alone.
C11_NextBeforeInitFails ==
    \A k \in DOMAIN calls :
        ~calls[k].initialized
            => /\ calls[k].result = ErrResult("NotInitialized")
               /\ calls[k].deleted = <<>>
               /\ calls[k].count_after = calls[k].count_before

\* C12: when the child of an initialized executor yields a row without a
\* rid, next() returns the MissingRid error, issues no table_heap.delete,
\* leaves count as it was and changes no byte of any page.
C12_MissingRid ==
    \A k \in DOMAIN calls :
        (/\ calls[k].initialized
         /\ calls[k].pulled[1].kind = "row"
         /\ ~calls[k].pulled[1].has_rid)
            => /\ calls[k].result = ErrResult("MissingRid")
               /\ calls[k].deleted = <<>>
               /\ calls[k].count_after = calls[k].count_before
               /\ calls[k].pages_after = calls[k].pages_before

\* a row without a rid pulled right after a row that was deleted and counted
C12_Witness ==
    /\ Len(calls) >= 2
    /\ calls[1].result = SomeTuple(FALSE, <<>>)
    /\ calls[2].initialized
    /\ calls[2].pulled = <<RidlessItem>>
    /\ calls[2].result = ErrResult("MissingRid")
    /\ executor.count = 1
    /\ heap # HeapPages

\* init() came before the first next(), every next() but the last returned a
\* row and the last returned None
RanToEnd ==
    /\ calls # <<>>
    /\ \A k \in DOMAIN calls :
           /\ calls[k].initialized
           /\ calls[k].result.kind = (IF k = Len(calls) THEN "None" ELSE "Some")

Yielded(rid) == \E k \in DOMAIN calls : calls[k].pulled[1] = RowItem(rid)

\* C13: after a run to the end of the stream over a child that yields rows
\* of the table, every yielded row's tuple has xmax = the context's
\* transaction_id, every other row is byte-identical to before, every page's
\* tuple_count is as before, and count is the number of rows yielded.
C13_RunToEnd ==
    RanToEnd =>
        /\ \A rid \in Rids :
               IF Yielded(rid)
               THEN xmax(get_tuple(heap[rid[1]], rid[2])) = ctx
               ELSE get_tuple(heap[rid[1]], rid[2])
                        = get_tuple(HeapPages[rid[1]], rid[2])
        /\ \A pid \in DOMAIN heap :
               /\ tuple_count(heap[pid]) = tuple_count(HeapPages[pid])
               /\ \A i \in 0..(PAGE_SIZE - 1) :
                      heap[pid][i] # HeapPages[pid][i]
                          => \E rid \in Rids :
                                 /\ rid[1] = pid /\ Yielded(rid)
                                 /\ LET off == line_pointer_offset(
                                                   HeapPages[pid], rid[2])
                                    IN  /\ off + XMAX_OFFSET <= i
                                        /\ i < off + XMAX_OFFSET + XMAX_SIZE
        /\ executor.count = Len(calls) - 1

\* two of the three rows, one on each page, deleted by txn 258 and the third
\* left alone
C13_Witness ==
    /\ RanToEnd
    /\ Len(calls) = 3
    /\ ctx = 258
    /\ Yielded(<<FIRST_PAGE_ID, 1>>)
    /\ Yielded(<<SECOND_PAGE_ID, 0>>)
    /\ ~Yielded(<<FIRST_PAGE_ID, 0>>)
    /\ executor.count = 2

(***************************************************************************)
(* Properties of the planner (under PlanSpec).                             *)
(***************************************************************************)
\* the child a Delete or Update plan must have for this statement
ScanOf(stmt) ==
    SeqScanPlan(stmt.table_reference.first_page_id, stmt.table_reference.schema)

\* C14: for a bound Delete (Update) the plan's top node is Delete (Update),
\* its first_page_id is the base table's, the same as in the SeqScan leaf,
\* its schema is the single Int column __delete_count (__update_count), and
\* its child is Filter(SeqScan) if there is a condition, the SeqScan if not.
C14_MutationPlan ==
    (plan # <<>> /\ statement.kind \in {"Delete", "Update"}) =>
        LET top == plan[1]
            leaf == IF statement.condition # <<>> THEN top.child.child
                    ELSE top.child
        IN  /\ top.kind = statement.kind
            /\ top.first_page_id = statement.table_reference.first_page_id
            /\ Len(top.schema) = 1
            /\ top.schema[1].data_type = "Int"
            /\ top.schema[1].name =
                   (IF statement.kind = "Delete" THEN "__delete_count"
                    ELSE "__update_count")
            /\ top.child.kind =
                   (IF statement.condition # <<>> THEN "Filter" ELSE "SeqScan")
            /\ leaf.kind = "SeqScan"
            /\ leaf.first_page_id = top.first_page_id
            /\ leaf = ScanOf(statement)

\* the plan of a DELETE with a condition on the table at page 258
C14_Witness ==
    /\ plan # <<>>
    /\ statement.kind = "Delete"
    /\ statement.condition # <<>>
    /\ statement.table_reference.first_page_id = 258
    /\ plan[1].kind = "Delete"
    /\ plan[1].child.kind = "Filter"
    /\ plan[1].child.child.first_page_id = 258

\* C15: for a bound Select the plan is a chain over one SeqScan leaf, with a
\* Filter directly above the leaf iff there is a condition and a Project on
\* top iff the select list is not empty, and no other node; the Filter has
\* the SeqScan's schema; the Project has one column per select element, in
\* order, named after the element and typed by its expression's data type.
C15_SelectPlan ==
    (plan # <<>> /\ statement.kind = "Select") =>
        LET top == plan[1]
            elements == statement.select_elements
            below == IF top.kind = "Project" THEN top.child ELSE top
            leaf == IF below.kind = "Filter" THEN below.child ELSE below
        IN  /\ top.kind = "Project" <=> elements # <<>>
            /\ below.kind = "Filter" <=> statement.condition # <<>>
            /\ leaf = ScanOf(statement)
            /\ below.kind = "Filter"
                   => /\ below.schema = leaf.schema
                      /\ below.condition = statement.condition[1]
            /\ top.kind = "Project"
                   => /\ top.select_elements = elements
                      /\ Len(top.schema) = Len(elements)
                      /\ \A i \in 1..Len(elements) :
                             /\ top.schema[i].name = elements[i].name
                             /\ top.schema[i].data_type
                                    = data_type(elements[i].expression)

\* Project(Filter(SeqScan)) for a select list of two elements of different
\* types
C15_Witness ==
    /\ plan # <<>>
    /\ statement.kind = "Select"
    /\ plan[1].kind = "Project"
    /\ plan[1].child.kind = "Filter"
    /\ plan[1].child.child.kind = "SeqScan"
    /\ Len(plan[1].schema) = 2
    /\ plan[1].schema[1].data_type # plan[1].schema[2].data_type
    /\ plan[1].schema[1].name # plan[1].schema[2].name

(***************************************************************************)
(* Failed inserts and the header fields (under Spec).                      *)
(***************************************************************************)
\* C16: an insert that fails with PageFull leaves every byte of the page as
\* it was, so the tuples stored before read back unchanged and any payload
\* that fits the free space is still accepted, with the earlier tuples
\* unchanged after it; and once an insert has failed, a later insert that
\* fits succeeds and keeps the earlier tuples.
C16_FailedInsertNoEffect ==
    /\ (last.op = "insert" /\ ~last.ok) =>
           /\ data = prev
           /\ get_tuples(data) = get_tuples(prev)
           /\ \A bytes \in Payloads :
                  Len(bytes) + LINE_POINTER_SIZE <= free_space(data) =>
                      LET r == insert(data, bytes)
                      IN  /\ r.ok
                          /\ \A i \in 0..(tuple_count(data) - 1) :
                                 get_tuple(r.data, i) = get_tuple(data, i)
    /\ (failed /\ last.op = "insert"
            /\ Len(last.bytes) + LINE_POINTER_SIZE <= free_space(prev)) =>
           /\ last.ok
           /\ \A i \in 0..(tuple_count(prev) - 1) :
                  get_tuple(data, i) = get_tuple(prev, i)

\* a page with a tuple on it refused a payload, and a smaller one went in
\* afterwards
C16_Witness ==
    /\ failed
    /\ last.op = "insert" /\ last.ok
    /\ Len(last.bytes) > 0
    /\ tuple_count(prev) >= 1
    /\ ~insert(prev, Payload(FreshFit, 17)).ok
    /\ get_tuple(data, tuple_count(prev)) = last.bytes

\* the bytes of d outside [from, to) are those of e
SameOutside(d, e, from, to) ==
    \A i \in 0..(PAGE_SIZE - 1) : (i < from \/ i >= to) => d[i] = e[i]

\* C17: insert and delete change none of page_type, page_id, lsn and
\* next_page_id; set_lsn changes only the lsn and set_next_page_id only the
\* next_page_id, each read back by its accessor, and neither changes
\* lower_offset, upper_offset, a slot entry or a tuple byte; a fresh page has
\* next_page_id = INVALID_PAGE_ID and the page_id it was created with.
C17_HeaderFields ==
    /\ last.op \in {"insert", "delete"} =>
           /\ slice(data, PAGE_TYPE_OFFSET, PAGE_TYPE_OFFSET + PAGE_TYPE_SIZE)
                  = slice(prev, PAGE_TYPE_OFFSET,
                          PAGE_TYPE_OFFSET + PAGE_TYPE_SIZE)
           /\ slice(data, PAGE_ID_OFFSET, PAGE_ID_OFFSET + PAGE_ID_SIZE)
                  = slice(prev, PAGE_ID_OFFSET, PAGE_ID_OFFSET + PAGE_ID_SIZE)
           /\ slice(data, LSN_OFFSET, LSN_OFFSET + LSN_SIZE)
                  = slice(prev, LSN_OFFSET, LSN_OFFSET + LSN_SIZE)
           /\ slice(data, NEXT_PAGE_ID_OFFSET,
                    NEXT_PAGE_ID_OFFSET + NEXT_PAGE_ID_SIZE)
                  = slice(prev, NEXT_PAGE_ID_OFFSET,
                          NEXT_PAGE_ID_OFFSET + NEXT_PAGE_ID_SIZE)
           /\ page_id(data) = page_id(prev)
           /\ lsn(data) = lsn(prev)
           /\ next_page_id(data) = next_page_id(prev)
    /\ last.op = "set_lsn" =>
           /\ lsn(data) = last.arg
           /\ SameOutside(data, prev, LSN_OFFSET, LSN_OFFSET + LSN_SIZE)
           /\ get_tuples(data) = get_tuples(prev)
    /\ last.op = "set_next_page_id" =>
           /\ next_page_id(data) = last.arg
           /\ SameOutside(data, prev, NEXT_PAGE_ID_OFFSET,
                          NEXT_PAGE_ID_OFFSET + NEXT_PAGE_ID_SIZE)
           /\ get_tuples(data) = get_tuples(prev)
    /\ last.op = "new" =>
           /\ next_page_id(data) = INVALID_PAGE_ID
           /\ page_id(data) = last.arg

\* set_next_page_id on a page that holds a deleted tuple and has its lsn set
C17_Witness ==
    /\ last.op = "set_next_page_id"
    /\ data # prev
    /\ next_page_id(data) = 2
    /\ lsn(data) = 16909060
    /\ page_id(data) = 258
    /\ tuple_count(data) >= 1
    /\ SomeDelete

(***************************************************************************)
(* delete on a slot that was never inserted (under AnyIndexSpec).          *)
(***************************************************************************)
\* C18: delete(index, txn_id) with index >= tuple_count() changes no byte of
\* the page header, of the slot directory or of a stored tuple.
C18_OutOfRangeDeleteHarmless ==
    OutOfRange =>
        \A i \in 0..(PAGE_SIZE - 1) :
            (i < lower_offset(prev) \/ i >= upper_offset(prev))
                => data[i] = prev[i]

====
